---- MODULE Spec2Model ----
(***************************************************************************)
(* The download-completion monitor of the wx_metube plugin                 *)
(* (src/wx_metube/wx_metube.py): the dict of active tasks, the two TTL     *)
(* caches, the scan (check_downloads) run by the cron job and by the       *)
(* manual-check endpoint, and the submission thread that registers tasks.  *)
(* Time is in seconds.                                                     *)
(*                                                                         *)
(* Every step of the code is a function from the state to the next state. *)
(* Spec interleaves the steps of the threads and the scans; SpecSerial     *)
(* runs each handler to its end before the next one starts.                *)
(***************************************************************************)
EXTENDS Integers, Sequences, FiniteSets, TLC

\* ------------------------------------------------------------------ bounds
MaxRegs == 2
MaxScans == 2
MaxTicks == 1
MaxDone == 2

\* ------------------------------------------------------- program constants
TaskTTL == 86400
ProcessedTTL == 604800
InitialInterval == 10
NoInterval == -1

\* --------------------------------------------------------------- universes
Keys == {"v1", "v2"}
Users == {"alice", "bob"}
OrphanUser == "ops"
Titles == {"pending"}
Threads == {"t1"}
Scanners == {"cron", "manual"}
TickSteps == {10, 86400, 259200, 604800}

None == -1
NoTask == 0
NoUrl == "no_url"
NoFile == "no_file"
\* A filename that is not a string: urllib.parse.quote() raises TypeError.
BadFile == "bad_file"
NoInput == [op |-> "none"]
NoSend == [path |-> "none"]
Freed == [status |-> "freed"]

VARIABLES
    now,                        \* datetime.datetime.now()
    ticks,                      \* number of clock advances so far
    scans,                      \* number of check_downloads() calls so far
    config,                     \* utils.config: the orphan settings
    heap,                       \* the DownloadTask objects, by identity
    active_tasks,               \* DownloadMonitor.active_tasks (insertion order)
    download_cache,             \* Cache(ttl=86400): url -> DownloadTask
    processed_downloads_cache,  \* Cache(ttl=604800): processed_/orphan_ records
    last_check_time,            \* DownloadMonitor.last_check_time
    scanner,                    \* each check_downloads() execution's frame
    thread,                     \* each DownloadProcessThread's frame
    input,                      \* what the last step was called with or read
    sent,                       \* the send_text_message() call of the last step
    attempts                    \* per url, the completion messages sent so far

vars == <<now, ticks, scans, config, heap, active_tasks, download_cache,
          processed_downloads_cache, last_check_time, scanner, thread, input,
          sent, attempts>>

\* The state as one value.
State ==
    [now |-> now, ticks |-> ticks, scans |-> scans, config |-> config, heap |-> heap,
     active_tasks |-> active_tasks, download_cache |-> download_cache,
     processed_downloads_cache |-> processed_downloads_cache,
     last_check_time |-> last_check_time, scanner |-> scanner, thread |-> thread,
     input |-> input, sent |-> sent, attempts |-> attempts]

\* ------------------------------------------------------------ the Python dict
\* active_tasks is a dict: a sequence of [url, task] in insertion order.
DictKeys(d) == {d[i].url : i \in DOMAIN d}

DictHas(d, url) == url \in DictKeys(d)

DictGet(d, url) == LET i == CHOOSE j \in DOMAIN d : d[j].url = url IN d[i].task

DictSet(d, url, task) ==
    IF DictHas(d, url)
    THEN [i \in DOMAIN d |-> IF d[i].url = url THEN [url |-> url, task |-> task] ELSE d[i]]
    ELSE Append(d, [url |-> url, task |-> task])

DictDel(d, url) == SelectSeq(d, LAMBDA e : e.url # url)

\* ------------------------------------------------------- the cacheout Caches
\* An entry lives until its expiry time; get() of an expired entry is a miss.
CacheKeys == {<<ns, k>> : ns \in {"processed", "orphan"}, k \in Keys}

NoEntry == [task |-> NoTask, exp |-> 0]

NoRecord == [exp |-> 0]

\* A cache whose entries, once written, never expire.
LiveForever(S, exp) == exp > 0

Live(S, exp) == exp > S.now

download_cache_get(S, url) ==
    IF Live(S, S.download_cache[url].exp) THEN S.download_cache[url].task ELSE NoTask

download_cache_set(S, url, task) ==
    [S.download_cache EXCEPT ![url] = [task |-> task, exp |-> S.now + TaskTTL]]

processed_get(S, ns, url) == Live(S, S.processed_downloads_cache[<<ns, url>>].exp)

processed_set(S, ns, url) ==
    [S.processed_downloads_cache EXCEPT ![<<ns, url>>] = [exp |-> S.now + ProcessedTTL]]

\* A task that is registered without a last check time.
DownloadTaskUnchecked(S, url, title, user_id) ==
    [url |-> url, title |-> title, user_id |-> user_id, submit_time |-> S.now,
     status |-> "submitted", last_check_time |-> None, check_count |-> 0,
     next_check_interval |-> InitialInterval]

\* ------------------------------------------------------------- DownloadTask
DownloadTask(S, url, title, user_id) ==
    [url |-> url, title |-> title, user_id |-> user_id, submit_time |-> S.now,
     status |-> "submitted", last_check_time |-> S.now, check_count |-> 0,
     next_check_interval |-> InitialInterval]

\* ------------------------------------------------------------------ frames
IdleThread == [pc |-> "idle", url |-> NoUrl, task |-> NoTask]

IdleScanner ==
    [pc |-> "idle", id |-> 0, current_time |-> 0, it_size |-> 0, visited |-> {},
     tasks_to_remove |-> <<>>, seen |-> {}, url |-> NoUrl, filename |-> NoFile,
     task |-> NoTask, source |-> "none", registered |-> {}]

Configs ==
    {[notify_orphan_downloads |-> TRUE, orphan_download_user |-> OrphanUser],
     [notify_orphan_downloads |-> FALSE, orphan_download_user |-> OrphanUser],
     [notify_orphan_downloads |-> TRUE, orphan_download_user |-> ""]}

\* ------------------------------------------------- what the state leaves out
\* A DownloadTask nobody refers to any more is freed, and a cache entry whose
\* expiry has passed is dropped: no read can tell the difference.
Referenced(S) ==
    {S.active_tasks[i].task : i \in DOMAIN S.active_tasks}
    \cup {S.download_cache[k].task : k \in Keys}
    \cup {S.scanner[s].task : s \in Scanners}
    \cup {S.thread[t].task : t \in Threads}

Collected(S) ==
    [S EXCEPT !.heap = [o \in DOMAIN S.heap |->
                          IF o \in Referenced(S) THEN S.heap[o] ELSE Freed]]

Expired(S) ==
    [S EXCEPT
        !.download_cache =
            [k \in Keys |-> IF Live(S, S.download_cache[k].exp)
                            THEN S.download_cache[k] ELSE NoEntry],
        !.processed_downloads_cache =
            [c \in CacheKeys |-> IF Live(S, S.processed_downloads_cache[c].exp)
                                 THEN S.processed_downloads_cache[c] ELSE NoRecord]]

\* The step to the state S.
Becomes(S) ==
    \E T \in {Collected(S)} :
    /\ now' = T.now
    /\ ticks' = T.ticks
    /\ scans' = T.scans
    /\ config' = T.config
    /\ heap' = T.heap
    /\ active_tasks' = T.active_tasks
    /\ download_cache' = T.download_cache
    /\ processed_downloads_cache' = T.processed_downloads_cache
    /\ last_check_time' = T.last_check_time
    /\ scanner' = T.scanner
    /\ thread' = T.thread
    /\ input' = T.input
    /\ sent' = T.sent
    /\ attempts' = T.attempts

Init ==
    /\ now = 0
    /\ ticks = 0
    /\ scans = 0
    /\ config \in Configs
    /\ heap = <<>>
    /\ active_tasks = <<>>
    /\ download_cache = [k \in Keys |-> NoEntry]
    /\ processed_downloads_cache = [c \in CacheKeys |-> NoRecord]
    /\ last_check_time = 0
    /\ scanner = [s \in Scanners |-> IdleScanner]
    /\ thread = [t \in Threads |-> IdleThread]
    /\ input = NoInput
    /\ sent = NoSend
    /\ attempts = [k \in Keys |-> <<>>]

\* ------------------------------------------------------------------- clock
Ticked(S, d) == Expired([S EXCEPT !.now = @ + d, !.ticks = @ + 1])

\* What a step starts from: nothing read and nothing sent yet.
Fresh(S) == [S EXCEPT !.input = NoInput, !.sent = NoSend]

\* ------------------------------------------- DownloadMonitor.add_active_task
\* A registry in which the first submission of a url wins.
StoredTasksFirstWins(d, url, task) == IF DictHas(d, url) THEN d ELSE DictSet(d, url, task)

\* Line 964: self.active_tasks[url] = download_task
StoredTasks(d, url, task) == DictSet(d, url, task)

\* The task the url had in active_tasks when add_active_task was called.
Previous(S, url) ==
    IF DictHas(S.active_tasks, url) THEN S.heap[DictGet(S.active_tasks, url)] ELSE Freed

\* Lines 954-964: the DownloadTask is constructed and stored in the dict,
\* whether or not the url is already there.
add_active_task_store(S, t, url, user_id, title) ==
    LET task == Len(S.heap) + 1 IN
    [S EXCEPT
        !.heap = Append(@, DownloadTask(S, url, title, user_id)),
        !.active_tasks = StoredTasks(@, url, task),
        !.thread[t] = [pc |-> "cache", url |-> url, task |-> task],
        !.input = [op |-> "add_active_task", url |-> url, user_id |-> user_id,
                   title |-> title, previous |-> Previous(S, url)],
        !.scanner = [s \in Scanners |->
                       IF S.scanner[s].pc = "idle" THEN S.scanner[s]
                       ELSE [S.scanner[s] EXCEPT !.registered = @ \cup {url}]]]

\* Line 965: download_cache.set(url, download_task)
add_active_task_cache(S, t) ==
    [S EXCEPT
        !.download_cache = download_cache_set(S, S.thread[t].url, S.thread[t].task),
        !.thread[t] = IdleThread]

\* A calculator whose boundaries belong to the lower tier.
calculate_next_check_interval_inclusive(S, submit_time) ==
    LET elapsed_seconds == S.now - submit_time IN
    IF elapsed_seconds <= 3 * 60 THEN 10
    ELSE IF elapsed_seconds <= 10 * 60 THEN 60
    ELSE IF elapsed_seconds <= 50 * 60 THEN 300
    ELSE IF elapsed_seconds <= 120 * 60 THEN 600
    ELSE IF elapsed_seconds <= 4320 * 60 THEN 86400
    ELSE NoInterval

\* ------------------------------ DownloadMonitor.calculate_next_check_interval
calculate_next_check_interval(S, submit_time) ==
    LET elapsed_seconds == S.now - submit_time IN
    IF elapsed_seconds < 3 * 60 THEN 10
    ELSE IF elapsed_seconds < 10 * 60 THEN 60
    ELSE IF elapsed_seconds < 50 * 60 THEN 300
    ELSE IF elapsed_seconds < 120 * 60 THEN 600
    ELSE IF elapsed_seconds < 4320 * 60 THEN 86400
    ELSE NoInterval

\* ------------------------------------------- MeTubeClient.get_download_status
\* What /history can answer. The snapshot is fetched at line 683; each part of
\* it is drawn when the scan reads it: whether a url is in the queue, and the
\* next entry of the done list (at most MaxDone entries, with distinct urls).
\* An entry may lack its url or its filename, or have a status other than
\* 'finished'.
DoneItems ==
    {[url |-> k, status |-> "finished", filename |-> "f.mp4"] : k \in Keys}
    \cup {[url |-> "v1", status |-> "finished", filename |-> NoFile],
          [url |-> "v1", status |-> "error", filename |-> "f.mp4"],
          [url |-> NoUrl, status |-> "finished", filename |-> "f.mp4"]}

\* Finished entries whose filename is not a string.
FaultyItems ==
    {[url |-> k, status |-> "finished", filename |-> BadFile] : k \in Keys}

EndOfList == [url |-> NoUrl, status |-> "end", filename |-> NoFile]

NextDone(items, seen, max) ==
    {EndOfList} \cup {i \in items : Cardinality(seen) < max /\ i.url \notin seen}

\* ------------------------------------------- DownloadMonitor.check_downloads
\* A scan whose exception escapes check_downloads to the trigger.
ScanAbortedRaised(S, s) ==
    [S EXCEPT !.scanner[s].pc = "raised",
              !.input = [op |-> "exception", caught |-> "nowhere", scan |-> s]]

\* The handler at line 695: the exception ends this scan, which returns.
ScanAborted(S, s) ==
    [S EXCEPT !.scanner[s] = IdleScanner,
              !.input = [op |-> "exception", caught |-> "check_downloads", scan |-> s]]

\* A scan that stamps last_check_time before it probes the connection.
check_downloads_offline_stamped(S) ==
    [S EXCEPT !.scans = @ + 1, !.last_check_time = S.now,
              !.input = [op |-> "check_downloads_offline"]]

\* Lines 675-680: the connection probe fails and the scan returns.
check_downloads_offline(S) ==
    [S EXCEPT !.scans = @ + 1, !.input = [op |-> "check_downloads_offline"]]

\* Lines 675-703: the probe succeeds, the snapshot is fetched and the
\* iteration over active_tasks.items() begins.
check_downloads_start(S, s) ==
    [S EXCEPT
        !.scans = @ + 1,
        !.scanner[s] = [IdleScanner EXCEPT !.pc = "iter", !.id = S.scans + 1,
                                           !.current_time = S.now,
                                           !.it_size = Len(S.active_tasks)]]

\* A loop that checks every task in every scan.
DueAlways(task, current_time) == TRUE

\* Lines 705-708: the task is skipped while its interval has not elapsed.
Due(task, current_time) ==
    ~ (/\ task.last_check_time # None
       /\ current_time - task.last_check_time < task.next_check_interval)

\* A check that removes nothing.
ToRemoveNever(next_interval, found_in_queue) == FALSE

\* A check that removes only the tasks past the last tier.
ToRemoveExpired(next_interval, found_in_queue) == next_interval = NoInterval

\* Lines 717-735: the task is put on tasks_to_remove.
ToRemove(next_interval, found_in_queue) == next_interval = NoInterval \/ ~ found_in_queue

\* A check that also moves the task to a status of its own.
CheckedMonitoring(task, current_time, next_interval) ==
    [task EXCEPT !.last_check_time = current_time,
                 !.check_count = @ + 1,
                 !.status = "monitoring",
                 !.next_check_interval =
                     IF next_interval = NoInterval THEN @ ELSE next_interval]

\* A check that stamps the task and leaves its interval as it was.
CheckedKeepsInterval(task, current_time, next_interval) ==
    [task EXCEPT !.last_check_time = current_time, !.check_count = @ + 1]

\* Lines 710-723: the fields a check writes.
Checked(task, current_time, next_interval) ==
    [task EXCEPT !.last_check_time = current_time,
                 !.check_count = @ + 1,
                 !.next_check_interval =
                     IF next_interval = NoInterval THEN @ ELSE next_interval]

\* The entries of active_tasks the iteration has not visited yet.
Unvisited(S, s) ==
    {i \in DOMAIN S.active_tasks : S.active_tasks[i].url \notin S.scanner[s].visited}

\* The url the next round of the loop visits.
NextUrl(S, s) ==
    IF Unvisited(S, s) = {} THEN NoUrl
    ELSE S.active_tasks[CHOOSE j \in Unvisited(S, s) : \A k \in Unvisited(S, s) : j <= k].url

\* Lines 703-735: one round of the loop over active_tasks.items().
check_active_tasks(S, s, found_in_queue) ==
    LET f == S.scanner[s]
        url == NextUrl(S, s)
        oid == DictGet(S.active_tasks, url)
        next_interval == calculate_next_check_interval(S, S.heap[oid].submit_time)
    IN
    IF Len(S.active_tasks) # f.it_size
    THEN \* RuntimeError: dictionary changed size during iteration
         ScanAborted(S, s)
    ELSE IF url = NoUrl
    THEN [S EXCEPT !.scanner[s].pc = "remove", !.scanner[s].visited = {},
                   !.scanner[s].it_size = 0]
    ELSE IF ~ Due(S.heap[oid], f.current_time)
    THEN [S EXCEPT !.scanner[s].visited = @ \cup {url}]
    ELSE [S EXCEPT
            !.heap[oid] = Checked(@, f.current_time, next_interval),
            !.scanner[s].visited = @ \cup {url},
            !.scanner[s].tasks_to_remove =
                IF ToRemove(next_interval, found_in_queue) THEN Append(@, url) ELSE @]

\* A scan that forgets tasks_to_remove and deletes nothing.
remove_tasks_kept(S, s) == [S EXCEPT !.scanner[s].pc = "done"]

\* Lines 738-739: del self.active_tasks[url]
remove_tasks(S, s) ==
    LET f == S.scanner[s] IN
    IF f.tasks_to_remove = <<>>
    THEN [S EXCEPT !.scanner[s].pc = "done"]
    ELSE IF ~ DictHas(S.active_tasks, Head(f.tasks_to_remove))
    THEN \* KeyError
         ScanAborted(S, s)
    ELSE [S EXCEPT !.active_tasks = DictDel(@, Head(f.tasks_to_remove)),
                   !.scanner[s].tasks_to_remove = Tail(@)]

\* A loop that also passes over a url with an orphan_ record.
SkippedEitherRecord(S, item) ==
    \/ item.status # "finished"
    \/ item.url = NoUrl
    \/ processed_get(S, "processed", item.url)
    \/ processed_get(S, "orphan", item.url)

\* A loop that also passes over an entry without a filename.
SkippedNoFilename(S, item) ==
    \/ item.status # "finished"
    \/ item.url = NoUrl
    \/ item.filename = NoFile
    \/ processed_get(S, "processed", item.url)

\* Lines 750-761: the entries the loop passes over.
Skipped(S, item) ==
    \/ item.status # "finished"
    \/ item.url = NoUrl
    \/ processed_get(S, "processed", item.url)

\* Lines 749-765 and 692: the next entry of the done list, or the end of the scan.
process_completed_downloads(S, s, item) ==
    IF item = EndOfList
    THEN [S EXCEPT !.last_check_time = S.scanner[s].current_time,
                   !.scanner[s] = IdleScanner]
    ELSE IF Skipped(S, item)
    THEN [S EXCEPT !.scanner[s].seen = @ \cup {item.url},
                   !.input = [op |-> "item", item |-> item]]
    ELSE [S EXCEPT !.scanner[s].seen = @ \cup {item.url},
                   !.input = [op |-> "item", item |-> item],
                   !.scanner[s].pc = "lookup",
                   !.scanner[s].url = item.url,
                   !.scanner[s].filename = item.filename]

\* The entry is dealt with: back to the loop over the done list.
NextEntry(S, s) ==
    [S EXCEPT !.scanner[s].pc = "done", !.scanner[s].url = NoUrl,
              !.scanner[s].filename = NoFile, !.scanner[s].task = NoTask,
              !.scanner[s].source = "none"]

\* An entry whose exception escapes its handler and ends the scan.
CaughtInEntryAborts(S, s, handler) == ScanAborted(S, s)

\* Lines 853-854 and 949-950: the exception of one entry is caught and logged
\* by the handler it was raised in.
CaughtInEntry(S, s, handler) ==
    NextEntry([S EXCEPT !.input = [op |-> "exception", caught |-> handler,
                                   scan |-> s]], s)

\* Lines 806-810 and 872-875: quote(filename) raises on a filename that is
\* not a string.
LinkRaises(filename) == filename = BadFile

\* Line 802: a task already marked completed is not notified again.
AfterLookup(S, task) == IF S.heap[task].status = "completed" THEN "done" ELSE "send"

\* Line 783: if url in self.active_tasks
lookup_task(S, s) ==
    [S EXCEPT !.scanner[s].pc =
                  IF DictHas(S.active_tasks, S.scanner[s].url) THEN "take" ELSE "cached"]

\* Lines 784-785 and 802: the task is taken out of active_tasks.
take_task(S, s) ==
    LET f == S.scanner[s]
        task == DictGet(S.active_tasks, f.url)
        T == [S EXCEPT
                !.active_tasks = DictDel(@, f.url),
                !.scanner = [r \in Scanners |->
                               [S.scanner[r] EXCEPT !.registered = @ \ {f.url}]]]
    IN
    IF ~ DictHas(S.active_tasks, f.url)
    THEN \* KeyError, caught at line 853
         CaughtInEntry(S, s, "_process_completed_download")
    ELSE IF AfterLookup(S, task) = "send"
    THEN [T EXCEPT !.scanner[s].pc = "send", !.scanner[s].task = task,
                   !.scanner[s].source = "active_tasks"]
    ELSE NextEntry(T, s)

\* A matcher that treats every url missing from active_tasks as an orphan.
IsOrphanUnregistered(task) == TRUE

\* Lines 795-799 and 867: which finished entries go to the orphan handler,
\* and which of those it passes over.
IsOrphan(task) == task = NoTask

OrphanSkipped(S, url) == processed_get(S, "orphan", url)

\* Lines 789-802 and 856-869: the task is looked up in download_cache; without
\* one the entry goes to _handle_orphan_download.
lookup_cache(S, s) ==
    LET f == S.scanner[s]
        task == download_cache_get(S, f.url)
    IN
    IF IsOrphan(task)
    THEN IF OrphanSkipped(S, f.url)
         THEN NextEntry(S, s)
         ELSE [S EXCEPT !.scanner[s].pc = "orphan_send"]
    ELSE IF AfterLookup(S, task) = "send"
         THEN [S EXCEPT !.scanner[s].pc = "send", !.scanner[s].task = task,
                        !.scanner[s].source = "download_cache"]
         ELSE NextEntry(S, s)

\* One send_text_message() call made by scan s for the entry it is processing.
Sent(S, path, to, success, s) ==
    [path |-> path, to |-> to, url |-> S.scanner[s].url,
     filename |-> S.scanner[s].filename, ok |-> success,
     source |-> S.scanner[s].source, scan |-> S.scanner[s].id]

\* A matcher that records no outcome, and one that records every outcome.
RecordedNever(success) == FALSE

RecordedAlways(success) == TRUE

\* A matcher that sends the completion message to the orphan user.
RecipientOrphanUser(S, task) == S.config.orphan_download_user

\* Line 833: the result of the send decides whether the outcome is recorded.
Recorded(success) == success

\* Lines 826-829: the recipient of the completion message.
Recipient(S, task) == S.heap[task].user_id

\* Lines 826-851: the completion message is sent to the task's user and, on
\* success, the task and the processed_ record are written.
send_completion(S, s, success) ==
    LET f == S.scanner[s]
        T == [S EXCEPT !.sent = Sent(S, "task", Recipient(S, f.task), success, s),
                       !.attempts[f.url] =
                           Append(@, [at |-> S.now, ok |-> success, scan |-> f.id,
                                      scans |-> S.scans])]
    IN
    IF LinkRaises(f.filename)
    THEN \* TypeError, caught at line 853
         CaughtInEntry(S, s, "_process_completed_download")
    ELSE IF Recorded(success)
    THEN NextEntry([T EXCEPT
                      !.heap[f.task].status = "completed",
                      !.download_cache = download_cache_set(S, f.url, f.task),
                      !.processed_downloads_cache = processed_set(S, "processed", f.url)],
                   s)
    ELSE NextEntry(T, s)

\* An orphan handler that sends whatever the settings are.
OrphanNotifiedAlways(S) == TRUE

\* Line 890: the orphan message is sent only with the setting on and a user set.
OrphanNotified(S) ==
    S.config.notify_orphan_downloads /\ S.config.orphan_download_user # ""

\* An orphan handler that writes the orphan_ record only after a successful send.
handle_orphan_download_on_success(S, s, success) ==
    NextEntry([S EXCEPT
                 !.sent = IF S.config.notify_orphan_downloads
                             /\ S.config.orphan_download_user # ""
                          THEN Sent(S, "orphan", S.config.orphan_download_user, success, s)
                          ELSE NoSend,
                 !.processed_downloads_cache =
                     IF success THEN processed_set(S, "orphan", S.scanner[s].url) ELSE @],
              s)

\* Lines 887-947: the orphan message is sent to the configured user, if any
\* (Config defines no default_user, so the second channel sends nothing), and
\* the orphan_ record is written.
handle_orphan_download(S, s, success) ==
    IF LinkRaises(S.scanner[s].filename)
    THEN \* TypeError, caught at line 949
         CaughtInEntry(S, s, "_handle_orphan_download")
    ELSE
    NextEntry([S EXCEPT
                 !.sent = IF OrphanNotified(S)
                          THEN Sent(S, "orphan", S.config.orphan_download_user, success, s)
                          ELSE NoSend,
                 !.processed_downloads_cache =
                     processed_set(S, "orphan", S.scanner[s].url)],
              s)

\* ------------------------------------------------- the steps, one at a time
\* Time passes while nobody runs in-memory code: every frame is idle or
\* blocked in a send.
Blocked(s) == scanner[s].pc \in {"idle", "send", "orphan_send"}

Tick(d) ==
    /\ \A s \in Scanners : Blocked(s)
    /\ \A t \in Threads : thread[t].pc = "idle"
    /\ Becomes(Ticked(Fresh(State), d))

AddActiveTask(t, url, user_id, title) ==
    /\ thread[t].pc = "idle"
    /\ Becomes(add_active_task_store(Fresh(State), t, url, user_id, title))

AddActiveTaskCache(t) ==
    /\ thread[t].pc = "cache"
    /\ Becomes(add_active_task_cache(Fresh(State), t))

CheckDownloadsOffline(s) ==
    /\ scanner[s].pc = "idle"
    /\ Becomes(check_downloads_offline(Fresh(State)))

CheckDownloads(s) ==
    /\ scanner[s].pc = "idle"
    /\ Becomes(check_downloads_start(Fresh(State), s))

CheckActiveTasks(s, found_in_queue) ==
    /\ scanner[s].pc = "iter"
    /\ Becomes(check_active_tasks(Fresh(State), s, found_in_queue))

RemoveTasks(s) ==
    /\ scanner[s].pc = "remove"
    /\ Becomes(remove_tasks(Fresh(State), s))

ProcessCompletedDownloads(s, entry) ==
    /\ scanner[s].pc = "done"
    /\ Becomes(process_completed_downloads(Fresh(State), s, entry))

LookupTask(s) ==
    /\ scanner[s].pc = "lookup"
    /\ Becomes(lookup_task(Fresh(State), s))

TakeTask(s) ==
    /\ scanner[s].pc = "take"
    /\ Becomes(take_task(Fresh(State), s))

LookupCache(s) ==
    /\ scanner[s].pc = "cached"
    /\ Becomes(lookup_cache(Fresh(State), s))

SendCompletion(s, success) ==
    /\ scanner[s].pc = "send"
    /\ Becomes(send_completion(Fresh(State), s, success))

\* Without a recipient nothing is sent, so there is no result to draw.
HandleOrphanDownload(s, success) ==
    /\ scanner[s].pc = "orphan_send"
    /\ success => OrphanNotified(State)
    /\ Becomes(handle_orphan_download(Fresh(State), s, success))

\* The interleaved steps are explored for one submitting user, clock advances
\* of one initial interval, done lists of well-formed entries, and with the
\* orphan notification configured.
OverlapUsers == {"alice"}

OverlapTickSteps == {InitialInterval}

MaxOverlapDone == 1

OverlapDoneItems ==
    {i \in DoneItems : i.status = "finished" /\ i.url # NoUrl /\ i.filename # NoFile}

DownloadProcessThread(t) ==
    \/ /\ Len(heap) < MaxRegs
       /\ \E url \in Keys, u \in OverlapUsers, ti \in Titles : AddActiveTask(t, url, u, ti)
    \/ AddActiveTaskCache(t)

Scan(s) ==
    \/ /\ scans < MaxScans
       /\ CheckDownloads(s)
    \/ \E found_in_queue \in BOOLEAN : CheckActiveTasks(s, found_in_queue)
    \/ RemoveTasks(s)
    \/ \E entry \in NextDone(OverlapDoneItems, scanner[s].seen, MaxOverlapDone) :
           ProcessCompletedDownloads(s, entry)
    \/ LookupTask(s)
    \/ TakeTask(s)
    \/ LookupCache(s)
    \/ \E success \in BOOLEAN : SendCompletion(s, success)
    \/ \E success \in BOOLEAN : HandleOrphanDownload(s, success)

\* Threads and scans interleave at every step.
Next ==
    \/ /\ ticks < MaxTicks
       /\ \E d \in OverlapTickSteps : Tick(d)
    \/ \E t \in Threads : DownloadProcessThread(t)
    \/ \E s \in Scanners : Scan(s)

\* The configuration with the orphan notification set up.
InitNotified == Init /\ OrphanNotified(State)

Spec == InitNotified /\ [][Next]_vars

\* ------------------------------------------- registrations during an old scan
\* One scan at a time, interleaved with the submitting thread, with a clock
\* that advances past the last tier.
ExpirySteps == {4320 * 60}

NextExpiry ==
    \/ /\ ticks < MaxTicks
       /\ \E d \in ExpirySteps : Tick(d)
    \/ \E t \in Threads : DownloadProcessThread(t)
    \/ Scan("cron")

SpecExpiry == InitNotified /\ [][NextExpiry]_vars

\* ---------------------------------------------- the handlers, one at a time
Quiet ==
    /\ \A s \in Scanners : scanner[s].pc = "idle"
    /\ \A t \in Threads : thread[t].pc = "idle"

\* Lines 698-739: _check_active_tasks from its first round to its last.
RECURSIVE RunActive(_, _, _)
RunActive(S0, s, queue) ==
    CHOOSE R \in
        {IF S.scanner[s].pc = "iter"
         THEN RunActive(check_active_tasks(S, s, NextUrl(S, s) \in queue), s, queue)
         ELSE IF S.scanner[s].pc = "remove"
         THEN RunActive(remove_tasks(S, s), s, queue)
         ELSE S : S \in {S0}} : TRUE

\* Lines 770-854 and 856-950: one entry of the done list from lookup to record.
RECURSIVE RunEntry(_, _, _)
RunEntry(S0, s, success) ==
    CHOOSE R \in
        {IF S.scanner[s].pc = "lookup" THEN RunEntry(lookup_task(S, s), s, success)
         ELSE IF S.scanner[s].pc = "take" THEN RunEntry(take_task(S, s), s, success)
         ELSE IF S.scanner[s].pc = "cached" THEN RunEntry(lookup_cache(S, s), s, success)
         ELSE IF S.scanner[s].pc = "send" THEN send_completion(S, s, success)
         ELSE IF S.scanner[s].pc = "orphan_send"
         THEN handle_orphan_download(S, s, success)
         ELSE S : S \in {S0}} : TRUE

SerialTick(d) ==
    /\ Quiet
    /\ Tick(d)

SerialAddActiveTask(t, url, user_id, title) ==
    /\ Quiet
    /\ Becomes(add_active_task_cache(
                   add_active_task_store(Fresh(State), t, url, user_id, title), t))

SerialCheckDownloadsOffline(s) ==
    /\ Quiet
    /\ CheckDownloadsOffline(s)

\* Lines 683-689: the snapshot's queue is the input of _check_active_tasks.
SerialCheckDownloads(s, queue) ==
    /\ Quiet
    /\ Becomes([RunActive(check_downloads_start(Fresh(State), s), s, queue)
                   EXCEPT !.input = [op |-> "check_downloads", queue |-> queue]])

SerialProcessCompletedDownloads(s, entry, success) ==
    /\ scanner[s].pc = "done"
    /\ Becomes(RunEntry(process_completed_downloads(Fresh(State), s, entry), s, success))

NextSerial ==
    \/ /\ ticks < MaxTicks
       /\ \E d \in TickSteps : SerialTick(d)
    \/ /\ Len(heap) < MaxRegs
       /\ \E t \in Threads, url \in Keys, u \in Users, ti \in Titles :
              SerialAddActiveTask(t, url, u, ti)
    \/ /\ scans < MaxScans
       /\ SerialCheckDownloadsOffline("cron")
    \/ /\ scans < MaxScans
       /\ \E queue \in SUBSET DictKeys(active_tasks) : SerialCheckDownloads("cron", queue)
    \/ \E entry \in NextDone(DoneItems, scanner["cron"].seen, MaxDone),
          success \in BOOLEAN :
           SerialProcessCompletedDownloads("cron", entry, success)

SpecSerial == Init /\ [][NextSerial]_vars

\* ------------------------------------------- entries that raise in the matcher
\* The handlers one at a time, with done lists that also hold entries whose
\* filename makes the link construction raise.
NextFaults ==
    \/ /\ ticks < MaxTicks
       /\ \E d \in TickSteps : SerialTick(d)
    \/ /\ Len(heap) < MaxRegs
       /\ \E t \in Threads, url \in Keys, u \in OverlapUsers, ti \in Titles :
              SerialAddActiveTask(t, url, u, ti)
    \/ /\ scans < MaxScans
       /\ \E queue \in SUBSET DictKeys(active_tasks) : SerialCheckDownloads("cron", queue)
    \/ \E entry \in NextDone(DoneItems \cup FaultyItems, scanner["cron"].seen, MaxDone),
          success \in BOOLEAN :
           SerialProcessCompletedDownloads("cron", entry, success)

SpecFaults == Init /\ [][NextFaults]_vars

\* ------------------------------------------------ scans that keep firing
\* The cron job fires without end while the backend is reachable; every done
\* list holds the finished entry of LiveKey; the clock stays within the 24 h
\* of download_cache. The histories that only grow are not kept.
LiveKey == "v1"

LiveSteps == {10, 3600}

MaxLiveTicks == 2

LiveItem == [url |-> LiveKey, status |-> "finished", filename |-> "f.mp4"]

\* The done list read by scan s: the finished entry, then the end of the list.
LiveEntry(s) == IF LiveKey \in scanner[s].seen THEN EndOfList ELSE LiveItem

Forgotten(S) == [S EXCEPT !.scans = 0, !.attempts = [k \in Keys |-> <<>>]]

LiveCheckDownloads(s, queue) ==
    /\ Quiet
    /\ \E S \in {RunActive(check_downloads_start(Fresh(State), s), s, queue)} :
           Becomes(Forgotten([S EXCEPT !.input = [op |-> "check_downloads",
                                                  queue |-> queue]]))

LiveProcessCompletedDownloads(s, success) ==
    /\ scanner[s].pc = "done"
    /\ \E S \in {RunEntry(process_completed_downloads(Fresh(State), s, LiveEntry(s)),
                           s, success)} :
           Becomes(Forgotten(S))

\* A messaging service that stays down.
SendNeverSucceeds == FALSE

\* A send_text_message() call of the matcher that succeeds.
SendSucceeds ==
    /\ LiveProcessCompletedDownloads("cron", TRUE)
    /\ sent'.path = "task"
    /\ sent'.ok

NextLive ==
    \/ /\ ticks < MaxLiveTicks
       /\ \E d \in LiveSteps : SerialTick(d)
    \/ /\ Len(heap) < MaxRegs
       /\ \E t \in Threads, u \in Users, ti \in Titles :
              SerialAddActiveTask(t, LiveKey, u, ti)
    \/ \E queue \in SUBSET DictKeys(active_tasks) : LiveCheckDownloads("cron", queue)
    \/ \E success \in BOOLEAN : LiveProcessCompletedDownloads("cron", success)

\* The scheduler starts the next scan, a scan that has started runs to its
\* end, and a send that is attempted again and again succeeds at some point.
Fairness ==
    /\ WF_vars(\E queue \in SUBSET DictKeys(active_tasks) : LiveCheckDownloads("cron", queue))
    /\ WF_vars(\E success \in BOOLEAN : LiveProcessCompletedDownloads("cron", success))
    /\ SF_vars(SendSucceeds)

SpecLive == InitNotified /\ [][NextLive]_vars /\ Fairness

\* ------------------------------------------------- tasks that grow old
\* The cron job fires without end while the clock advances a day at a time
\* to 72 h and more after the last registration; the queue and the done list
\* of each snapshot are arbitrary.
AgingSteps == {86400}

MaxAgingTicks == 4

LastRegistrationTick == 1

AgingProcessCompletedDownloads(s, entry, success) ==
    /\ scanner[s].pc = "done"
    /\ \E S \in {RunEntry(process_completed_downloads(Fresh(State), s, entry),
                           s, success)} :
           Becomes(Forgotten(S))

NextAging ==
    \/ /\ ticks < MaxAgingTicks
       /\ \E d \in AgingSteps : SerialTick(d)
    \/ /\ Len(heap) < MaxRegs
       /\ ticks <= LastRegistrationTick
       /\ \E t \in Threads, url \in Keys, u \in OverlapUsers, ti \in Titles :
              SerialAddActiveTask(t, url, u, ti)
    \/ \E queue \in SUBSET DictKeys(active_tasks) : LiveCheckDownloads("cron", queue)
    \/ \E entry \in NextDone(DoneItems, scanner["cron"].seen, MaxDone),
          success \in BOOLEAN :
           AgingProcessCompletedDownloads("cron", entry, success)

\* Time passes between the scans of the cron job (the clock is read between
\* handlers, so its advance is enabled again and again rather than all the
\* time), the scheduler starts the next scan, and a scan that has started
\* runs to its end.
FairnessAging ==
    /\ SF_vars(ticks < MaxAgingTicks /\ \E d \in AgingSteps : SerialTick(d))
    /\ WF_vars(\E queue \in SUBSET DictKeys(active_tasks) : LiveCheckDownloads("cron", queue))
    /\ WF_vars(\E entry \in NextDone(DoneItems, scanner["cron"].seen, MaxDone),
                  success \in BOOLEAN :
                   AgingProcessCompletedDownloads("cron", entry, success))

SpecAging == InitNotified /\ [][NextAging]_vars /\ FairnessAging

\* ------------------------------------------------- the schedule of checks
\* Registrations and scans that find nothing finished, at clock steps within
\* and between the check intervals.
MaxScheduleTicks == 3

MaxScheduleScans == 3

ScheduleSteps == {5, 10, 60, 4320 * 60}

NextSchedule ==
    \/ /\ ticks < MaxScheduleTicks
       /\ \E d \in ScheduleSteps : SerialTick(d)
    \/ /\ Len(heap) < MaxRegs
       /\ \E t \in Threads, url \in Keys, u \in OverlapUsers, ti \in Titles :
              SerialAddActiveTask(t, url, u, ti)
    \/ /\ scans < MaxScheduleScans
       /\ \E queue \in SUBSET DictKeys(active_tasks) : SerialCheckDownloads("cron", queue)
    \/ SerialProcessCompletedDownloads("cron", EndOfList, FALSE)

SpecSchedule == InitNotified /\ [][NextSchedule]_vars

\* ------------------------------------------------ the calculator on its own
\* The times at which the calculator is called: around each tier boundary.
TierBoundaries == {0, 3 * 60, 10 * 60, 50 * 60, 120 * 60, 4320 * 60}

TierTimes == {b + d : b \in TierBoundaries, d \in -3 .. 3} \cap Nat

SubmitTimes == {0, 1, 2}

\* The monitor as constructed, at any of these times.
InitTiers ==
    /\ now \in TierTimes
    /\ ticks = 0
    /\ scans = 0
    /\ config \in Configs
    /\ heap = <<>>
    /\ active_tasks = <<>>
    /\ download_cache = [k \in Keys |-> NoEntry]
    /\ processed_downloads_cache = [c \in CacheKeys |-> NoRecord]
    /\ last_check_time = now
    /\ scanner = [s \in Scanners |-> IdleScanner]
    /\ thread = [t \in Threads |-> IdleThread]
    /\ input = NoInput
    /\ sent = NoSend
    /\ attempts = [k \in Keys |-> <<>>]

\* Lines 655-670: one call, and what it returned.
CalculateNextCheckInterval(submit_time) ==
    /\ input = NoInput
    /\ submit_time <= now
    /\ Becomes([Fresh(State) EXCEPT
                   !.input = [op |-> "calculate_next_check_interval",
                              submit_time |-> submit_time,
                              interval |-> calculate_next_check_interval(State, submit_time)]])

NextTiers == \E submit_time \in SubmitTimes : CalculateNextCheckInterval(submit_time)

SpecTiers == InitTiers /\ [][NextTiers]_vars

\* ------------------------------------------------------------- properties
\* The url has a task: in active_tasks or, failing that, live in download_cache.
Tracked(k) == DictHas(active_tasks, k) \/ download_cache_get(State, k) # NoTask

TaskOf(k) ==
    IF DictHas(active_tasks, k) THEN DictGet(active_tasks, k)
    ELSE download_cache_get(State, k)

\* This step read a finished entry for url k from the done list.
ReadsFinished(k) ==
    /\ input'.op = "item"
    /\ input'.item.status = "finished"
    /\ input'.item.url = k

\* This step ran _handle_orphan_download for url k to its end.
OrphanHandled(k) ==
    /\ input'.op = "item"
    /\ processed_downloads_cache'[<<"orphan", k>>] # processed_downloads_cache[<<"orphan", k>>]

\* This step sent the completion message for url k.
Notified(k) == sent'.path = "task" /\ sent'.url = k

\* C1 (as stated): for a key, no two completion messages are dispatched within
\* the 24 h retention window, whether the first one succeeded or failed.
C1_AtMostOnce ==
    \A k \in Keys : \A i, j \in DOMAIN attempts[k] :
        i < j => attempts[k][j].at >= attempts[k][i].at + TaskTTL

\* C1 (amended): a scan dispatches at most one completion message for a key;
\* after a message whose send succeeded, no scan started later dispatches
\* another for 7 days; a failed send leaves no record, and every later scan
\* that reads the key as finished while its task is still cached sends again.
C1_AtMostOnceAfterSuccess ==
    /\ [](\A k \in Keys : \A i, j \in DOMAIN attempts[k] :
             i < j =>
                /\ attempts[k][i].scan # attempts[k][j].scan
                /\ attempts[k][i].ok =>
                      \/ attempts[k][j].at >= attempts[k][i].at + ProcessedTTL
                      \/ attempts[k][j].scan <= attempts[k][i].scans)
    /\ [][\A k \in Keys :
             (/\ ReadsFinished(k)
              /\ Tracked(k)
              /\ ~ processed_get(State, "processed", k)) => Notified(k)]_vars

\* C1 witness: a second message for a key, sent because the first send failed.
C1_Witness ==
    \E k \in Keys :
        /\ Len(attempts[k]) = 2
        /\ ~ attempts[k][1].ok
        /\ attempts[k][2].at < attempts[k][1].at + TaskTTL

\* C2 (as stated): after a completion message was attempted for a key found
\* in the registry, the key has a processed_ record, on success and on failure.
C2_RecordedAfterAttempt ==
    sent.path = "task" => processed_get(State, "processed", sent.url)

\* C2 (amended): the processed_ record (and the completed task in
\* download_cache) is written exactly when the send reports success; after a
\* failed send neither cache is written and the key has no processed_ record.
C2_RecordedIffSuccess ==
    [][\A k \in Keys : Notified(k) =>
          IF sent'.ok
          THEN /\ processed_downloads_cache'[<<"processed", k>>].exp = now' + ProcessedTTL
               /\ download_cache'[k].exp = now' + TaskTTL
               /\ heap'[download_cache'[k].task].status = "completed"
          ELSE /\ UNCHANGED <<processed_downloads_cache, download_cache>>
               /\ ~ processed_get(State, "processed", k)]_vars

\* C2 witness: a failed completion message that left no processed_ record.
C2_Witness ==
    /\ sent.path = "task"
    /\ ~ sent.ok
    /\ ~ processed_get(State, "processed", sent.url)

\* C3: every completion message for a key goes to the user of the task that
\* is tracked for that key, never to the orphan user or another key's user.
C3_RecipientIsOwner ==
    [][\A k \in Keys : Notified(k) =>
          /\ Tracked(k)
          /\ sent'.to = heap[TaskOf(k)].user_id
          /\ sent'.to # OrphanUser]_vars

\* C3 witness: a completion message sent while another key's task has
\* another user.
C3_Witness ==
    /\ sent.path = "task"
    /\ \E o \in DOMAIN heap :
          /\ heap[o] # Freed
          /\ heap[o].url # sent.url
          /\ heap[o].user_id # sent.to

\* C4 (as stated): a finished key is handled by the ordinary path only if it
\* is in active_tasks, and by the orphan path only if it is not.
C4_OrphanIsolation ==
    [][\A k \in Keys :
          /\ Notified(k) => DictHas(active_tasks, k)
          /\ OrphanHandled(k) => ~ DictHas(active_tasks, k)]_vars

\* C4 (amended): a finished key is handled by the ordinary path only if it has
\* a task in active_tasks or a live one in download_cache, and by the orphan
\* path only if it has neither.
C4_OrphanIsolationCached ==
    [][\A k \in Keys :
          /\ Notified(k) => Tracked(k)
          /\ OrphanHandled(k) => ~ Tracked(k)
          /\ (Notified(k) /\ ~ DictHas(active_tasks, k)) => sent'.source = "download_cache"]_vars

\* C4 witness: a completion message for a key that was not in active_tasks,
\* its task taken from download_cache.
C4_Witness == sent.path = "task" /\ sent.source = "download_cache"

\* C5 (as stated): an orphan_ record never makes the scan skip the ordinary
\* message for the key, and a processed_ record never makes it skip the
\* orphan handling of the key.
C5_NamespacesIndependent ==
    [][\A k \in Keys : ReadsFinished(k) =>
          /\ (/\ Tracked(k)
              /\ ~ processed_get(State, "processed", k)) => Notified(k)
          /\ (/\ ~ Tracked(k)
              /\ ~ processed_get(State, "orphan", k)) => OrphanHandled(k)]_vars

\* C5 (amended): an orphan_ record never makes the scan skip the ordinary
\* message for the key; a live processed_ record makes the scan pass over the
\* key altogether, orphan handling included; without one, a key with no task
\* is handled as an orphan exactly when it has no live orphan_ record.
C5_ProcessedSuppressesOrphan ==
    [][\A k \in Keys : ReadsFinished(k) =>
          /\ (/\ Tracked(k)
              /\ ~ processed_get(State, "processed", k)) => Notified(k)
          /\ processed_get(State, "processed", k) =>
                /\ sent' = NoSend
                /\ UNCHANGED processed_downloads_cache
          /\ (/\ ~ Tracked(k)
              /\ ~ processed_get(State, "processed", k)) =>
                (OrphanHandled(k) <=> ~ processed_get(State, "orphan", k))]_vars

\* C5 witness: a finished key with no task and no orphan_ record that the
\* scan passed over because of its processed_ record.
C5_Witness ==
    /\ input.op = "item"
    /\ input.item.status = "finished"
    /\ input.item.url \in Keys
    /\ processed_get(State, "processed", input.item.url)
    /\ ~ processed_get(State, "orphan", input.item.url)
    /\ ~ Tracked(input.item.url)
    /\ sent = NoSend

\* The tasks a whole run of _check_active_tasks took out of active_tasks.
Removed(k) ==
    /\ input'.op = "check_downloads"
    /\ DictHas(active_tasks, k)
    /\ ~ DictHas(active_tasks', k)

\* C6 (as stated): a check removes a task exactly when the task is due and
\* 72 h have passed since its submission, and sends nothing.
C6_RemovedAtExpiry ==
    [][input'.op = "check_downloads" =>
          /\ sent' = NoSend
          /\ \A k \in DictKeys(active_tasks) :
                LET task == heap[DictGet(active_tasks, k)] IN
                Removed(k) <=> /\ Due(task, now)
                               /\ now - task.submit_time >= 4320 * 60]_vars

\* C6 (amended): a check removes a task exactly when the task is due and
\* either 72 h have passed since its submission or its url is not in the
\* snapshot's queue; the check sends nothing, and a message is only ever sent
\* for a url read as finished from the done list.
C6_RemovedWhenAbsentOrExpired ==
    [][/\ input'.op = "check_downloads" =>
             /\ sent' = NoSend
             /\ \A k \in DictKeys(active_tasks) :
                   LET task == heap[DictGet(active_tasks, k)] IN
                   Removed(k) <=> /\ Due(task, now)
                                  /\ \/ now - task.submit_time >= 4320 * 60
                                     \/ k \notin input'.queue
       /\ sent' # NoSend => ReadsFinished(sent'.url)]_vars

\* C6 witness: the first scan's check has just removed a task younger than
\* 72 h from active_tasks.
C6_Witness ==
    /\ input.op = "check_downloads"
    /\ scans = 1
    /\ \E k \in Keys :
          /\ ~ DictHas(active_tasks, k)
          /\ download_cache_get(State, k) # NoTask
          /\ LET task == heap[download_cache_get(State, k)] IN
                /\ task.check_count = 1
                /\ task.last_check_time = now
                /\ now - task.submit_time < 4320 * 60

\* C7: when a scan ends, every url registered while it ran (and not taken by
\* the matcher since) is in active_tasks.
C7_NoRegistrationLost ==
    [][\A s \in Scanners :
          (scanner[s].pc # "idle" /\ scanner'[s].pc = "idle") =>
              scanner[s].registered \subseteq DictKeys(active_tasks')]_vars

\* C8: at most one execution of check_downloads is in flight.
C8_ScansNeverOverlap == Cardinality({s \in Scanners : scanner[s].pc # "idle"}) <= 1

\* C9: no add_active_task stores into active_tasks while a scan is inside its
\* iteration over active_tasks, its removal loop, or between the matcher's
\* lookup and its del.
C9_RegistryOpsExclusive ==
    input.op = "add_active_task" =>
        \A s \in Scanners : scanner[s].pc \notin {"iter", "remove", "take"}

\* C10 (as stated): add_active_task for a url already in active_tasks changes
\* nothing: the url keeps its task and the task keeps every field.
C10_FirstSubmissionWins ==
    [][(input'.op = "add_active_task" /\ DictHas(active_tasks, input'.url)) =>
          /\ DictKeys(active_tasks') = DictKeys(active_tasks)
          /\ heap'[DictGet(active_tasks', input'.url)] =
                 heap[DictGet(active_tasks, input'.url)]]_vars

\* C10 (amended): add_active_task always stores a new task for the url, in
\* active_tasks and in download_cache: the submitting user and title,
\* submit_time and last_check_time now, check_count 0, interval 10 s. A url
\* already in active_tasks keeps its place and loses its previous task; the
\* other urls keep theirs.
C10_LastSubmissionWins ==
    [][input'.op = "add_active_task" =>
          LET k == input'.url
              new == DictGet(active_tasks', k)
          IN
          /\ new = Len(heap) + 1
          /\ heap'[new] = [url |-> k, title |-> input'.title, user_id |-> input'.user_id,
                           submit_time |-> now', status |-> "submitted",
                           last_check_time |-> now', check_count |-> 0,
                           next_check_interval |-> InitialInterval]
          /\ download_cache'[k] = [task |-> new, exp |-> now' + TaskTTL]
          /\ IF DictHas(active_tasks, k)
             THEN /\ Len(active_tasks') = Len(active_tasks)
                  /\ \A i \in DOMAIN active_tasks :
                        IF active_tasks[i].url = k
                        THEN active_tasks'[i] = [url |-> k, task |-> new]
                        ELSE active_tasks'[i] = active_tasks[i]
             ELSE active_tasks' = Append(active_tasks, [url |-> k, task |-> new])]_vars

\* C10 witness: a url registered again by another user, whose task now has
\* the new user and a restarted schedule.
C10_Witness ==
    /\ input.op = "add_active_task"
    /\ input.previous # Freed
    /\ input.previous.user_id # input.user_id
    /\ heap[DictGet(active_tasks, input.url)].user_id = input.user_id
    /\ heap[DictGet(active_tasks, input.url)].submit_time > input.previous.submit_time

\* C11: the calculator returns 10 s for an elapsed time under 3 minutes, 60 s
\* from 3 to under 10, 300 s from 10 to under 50, 600 s from 50 to under 120,
\* 86400 s from 120 to under 4320 and -1 (expired) from 4320 minutes on: each
\* boundary belongs to the higher tier.
C11_TierTable ==
    input.op = "calculate_next_check_interval" =>
        LET x == now - input.submit_time
            r == input.interval
        IN
        /\ x >= 0
        /\ x < 3 * 60 => r = 10
        /\ (3 * 60 <= x /\ x < 10 * 60) => r = 60
        /\ (10 * 60 <= x /\ x < 50 * 60) => r = 300
        /\ (50 * 60 <= x /\ x < 120 * 60) => r = 600
        /\ (120 * 60 <= x /\ x < 4320 * 60) => r = 86400
        /\ 4320 * 60 <= x => r = NoInterval

\* C11 witness: the calculator called exactly 4320 minutes after submission
\* answers expired.
C11_Witness ==
    /\ input.op = "calculate_next_check_interval"
    /\ now - input.submit_time = 4320 * 60
    /\ input.interval = NoInterval

\* C12: a scan whose connection probe fails changes nothing: active_tasks and
\* every task's fields, both caches, last_check_time and the frames stay as
\* they were, nothing is sent and the scan has returned.
C12_OfflineScanChangesNothing ==
    [][input'.op = "check_downloads_offline" =>
          /\ UNCHANGED <<now, config, heap, active_tasks, download_cache,
                         processed_downloads_cache, last_check_time, scanner, thread,
                         attempts>>
          /\ sent' = NoSend
          /\ \A s \in Scanners : scanner'[s].pc = "idle"]_vars

\* C12 witness: a scan found the backend unreachable while a task was due.
C12_Witness ==
    /\ input.op = "check_downloads_offline"
    /\ \E i \in DOMAIN active_tasks : Due(heap[active_tasks[i].task], now)
    /\ last_check_time < now

\* The last step read a finished entry for a url that has no task and no
\* processed_ record, and sent no completion message for it: the entry went
\* to _handle_orphan_download.
OrphanEntry ==
    /\ input.op = "item"
    /\ input.item.status = "finished"
    /\ input.item.url \in Keys
    /\ ~ Tracked(input.item.url)
    /\ ~ processed_get(State, "processed", input.item.url)
    /\ sent.path # "task"

\* C13: once the orphan handler has dealt with a finished key, the key has a
\* live orphan_ record, whether or not a recipient is configured and whether
\* the send succeeded or failed; a record written with a message runs 7 days.
C13_OrphanAlwaysRecorded ==
    OrphanEntry =>
        /\ processed_get(State, "orphan", input.item.url)
        /\ sent.path = "orphan" =>
               processed_downloads_cache[<<"orphan", input.item.url>>].exp = now + ProcessedTTL

\* C13 witness: an orphan_ record written although the orphan message failed.
C13_Witness ==
    /\ OrphanEntry
    /\ sent.path = "orphan"
    /\ ~ sent.ok
    /\ processed_downloads_cache[<<"orphan", input.item.url>>].exp = now + ProcessedTTL

\* C14: an orphan message for a url is sent only while the url has no live
\* orphan_ record, and to the configured orphan user; so with the record
\* written by the first attempt, no scan makes a second attempt.
C14_OrphanNotifiedOnce ==
    [][\A k \in Keys : (sent'.path = "orphan" /\ sent'.url = k) =>
          /\ ~ processed_get(State, "orphan", k)
          /\ sent'.to = config.orphan_download_user
          /\ config.notify_orphan_downloads]_vars

\* C15: no exception raised inside a scan leaves check_downloads: an error in
\* the iteration or the removal loop ends the scan, which has returned; an
\* error in one entry of the done list leaves the scan in its loop.
C15_NoExceptionEscapes ==
    /\ \A s \in Scanners : scanner[s].pc # "raised"
    /\ input.op = "exception" =>
           scanner[input.scan].pc =
               IF input.caught = "check_downloads" THEN "idle" ELSE "done"

\* C15 witness: the iteration over active_tasks raised, and the scan returned.
C15_Witness ==
    /\ input.op = "exception"
    /\ input.caught = "check_downloads"
    /\ scanner[input.scan].pc = "idle"
    /\ active_tasks # <<>>

\* The task of entry i of active_tasks is not due now.
NotDue(i) ==
    LET task == heap[active_tasks[i].task] IN
    now - task.last_check_time < task.next_check_interval

\* C16: a scan performs no check on a task whose interval has not elapsed
\* since its last check (a task registered at 0 in a scan at 5 s): the task
\* keeps every field and its place in active_tasks.
C16_NotDueUntouched ==
    [][input'.op = "check_downloads" =>
          \A i \in DOMAIN active_tasks : NotDue(i) =>
              /\ \E j \in DOMAIN active_tasks' : active_tasks'[j] = active_tasks[i]
              /\ heap'[active_tasks[i].task] = heap[active_tasks[i].task]]_vars

\* C16 witness: a scan at 5 s has passed over a task registered at 0.
C16_Witness ==
    /\ input.op = "check_downloads"
    /\ now = 5
    /\ \E i \in DOMAIN active_tasks :
          LET task == heap[active_tasks[i].task] IN
          /\ task.submit_time = 0
          /\ task.last_check_time = 0
          /\ task.check_count = 0
          /\ task.next_check_interval = InitialInterval

\* The entry of the done list just processed took url k out of active_tasks
\* (lines 783-785).
TakenByMatcher(k) ==
    /\ input'.op = "item"
    /\ input'.item.status = "finished"
    /\ input'.item.url = k

\* The check just run found the task of url k due and 72 h past submission.
ExpiredInCheck(k) ==
    /\ input'.op = "check_downloads"
    /\ Due(heap[DictGet(active_tasks, k)], now)
    /\ now - heap[DictGet(active_tasks, k)].submit_time >= 4320 * 60

\* The check just run found the task of url k due and its url not in the queue.
AbsentInCheck(k) ==
    /\ input'.op = "check_downloads"
    /\ Due(heap[DictGet(active_tasks, k)], now)
    /\ k \notin input'.queue

\* C17 (as stated): a due task whose url is not in the snapshot's queue stays
\* in active_tasks, and a url leaves active_tasks only when the matcher takes
\* it or when its task has expired.
C17_AbsentStaysRegistered ==
    [][\A k \in DictKeys(active_tasks) :
          /\ (AbsentInCheck(k) /\ ~ ExpiredInCheck(k)) => DictHas(active_tasks', k)
          /\ ~ DictHas(active_tasks', k) => TakenByMatcher(k) \/ ExpiredInCheck(k)]_vars

\* C17 (amended): a due task whose url is not in the snapshot's queue is
\* stamped as checked (seen through download_cache while its entry lives)
\* and removed from active_tasks by that scan; a url
\* leaves active_tasks only when the matcher takes it, when its task has
\* expired, or when its due task is not in the queue.
C17_AbsentIsRemoved ==
    [][\A k \in DictKeys(active_tasks) :
          LET oid == DictGet(active_tasks, k) IN
          /\ AbsentInCheck(k) =>
                /\ ~ DictHas(active_tasks', k)
                /\ heap'[oid] # Freed =>
                      /\ heap'[oid].last_check_time = now
                      /\ heap'[oid].check_count = heap[oid].check_count + 1
          /\ ~ DictHas(active_tasks', k) =>
                TakenByMatcher(k) \/ ExpiredInCheck(k) \/ AbsentInCheck(k)]_vars

\* C17 witness: a check has removed a task that is younger than 72 h and whose
\* url was not in the queue, while a task whose url was in the queue stays.
C17_Witness ==
    /\ input.op = "check_downloads"
    /\ \E k \in Keys \ input.queue :
          /\ ~ DictHas(active_tasks, k)
          /\ download_cache_get(State, k) # NoTask
          /\ LET task == heap[download_cache_get(State, k)] IN
                /\ task.last_check_time = now
                /\ task.check_count >= 1
                /\ now - task.submit_time < 4320 * 60
    /\ \E k \in input.queue :
          /\ DictHas(active_tasks, k)
          /\ heap[DictGet(active_tasks, k)].last_check_time = now

\* The entry of the done list just processed is finished and has no url.
EntryWithoutUrl ==
    /\ input'.op = "item"
    /\ input'.item.status = "finished"
    /\ input'.item.url = NoUrl

\* The entry of the done list just processed is finished, has a url and has
\* no filename.
EntryWithoutFilename ==
    /\ input'.op = "item"
    /\ input'.item.status = "finished"
    /\ input'.item.url # NoUrl
    /\ input'.item.filename = NoFile

\* C18 (as stated): a finished entry without a url or without a filename is
\* passed over, nothing is sent and no record is written for it, and the
\* scan goes on to the next entry.
C18_IncompleteEntrySkipped ==
    [][EntryWithoutUrl \/ EntryWithoutFilename =>
          /\ sent' = NoSend
          /\ processed_downloads_cache' = processed_downloads_cache
          /\ scanner'["cron"].pc = "done"]_vars

\* C18 (amended): a finished entry without a url is passed over, nothing is
\* sent and nothing is written for it; a finished entry without a filename
\* is processed like any other: when its url is in active_tasks and has no
\* processed_ record, the owner is sent a message whose link carries no
\* filename, and a successful send writes the processed_ record. In both
\* cases the scan goes on to the next entry.
C18_OnlyMissingUrlSkipped ==
    [][/\ EntryWithoutUrl =>
             /\ sent' = NoSend
             /\ UNCHANGED <<processed_downloads_cache, active_tasks, heap>>
             /\ scanner'["cron"].pc = "done"
       /\ EntryWithoutFilename =>
             LET k == input'.item.url IN
             /\ scanner'["cron"].pc = "done"
             /\ (DictHas(active_tasks, k) /\ ~ processed_get(State, "processed", k)) =>
                   /\ sent'.path = "task"
                   /\ sent'.url = k
                   /\ sent'.to = heap[DictGet(active_tasks, k)].user_id
                   /\ sent'.filename = NoFile
                   /\ sent'.ok =>
                         processed_downloads_cache'[<<"processed", k>>].exp
                             = now + ProcessedTTL]_vars

\* C18 witness: the owner has been sent the message of a finished entry that
\* has no filename, and the processed_ record of its url is written.
C18_Witness ==
    /\ input.op = "item"
    /\ input.item.status = "finished"
    /\ input.item.url \in Keys
    /\ input.item.filename = NoFile
    /\ sent.path = "task"
    /\ sent.ok
    /\ sent.filename = NoFile
    /\ processed_downloads_cache[<<"processed", input.item.url>>].exp = now + ProcessedTTL

\* The step just taken raised an exception in the processing of one entry.
RaisedInEntry ==
    /\ input'.op = "exception"
    /\ input'.caught \in {"_process_completed_download", "_handle_orphan_download"}

\* C19: an exception raised while one finished entry is processed is caught
\* within that entry: nothing is sent, no processed_ or orphan_ record is
\* written and no task is marked completed; the loop over the done list is
\* left only at the end of the list, never by an exception; and the entry
\* that follows an exception is notified to its owner as usual.
C19_ErrorConfinedToEntry ==
    [][/\ RaisedInEntry =>
             /\ sent' = NoSend
             /\ processed_downloads_cache' = processed_downloads_cache
             /\ download_cache' = download_cache
             /\ \A o \in DOMAIN heap : heap'[o] \in {heap[o], Freed}
             /\ scanner'["cron"].pc = "done"
       /\ (scanner["cron"].pc = "done" /\ scanner'["cron"].pc # "done") =>
             /\ input'.op # "exception"
             /\ last_check_time' = now
       /\ (/\ input.op = "exception"
           /\ input'.op = "item"
           /\ input'.item.status = "finished"
           /\ input'.item.filename # BadFile
           /\ DictHas(active_tasks, input'.item.url)
           /\ ~ processed_get(State, "processed", input'.item.url)) =>
              /\ sent'.path = "task"
              /\ sent'.url = input'.item.url
              /\ sent'.to = heap[DictGet(active_tasks, input'.item.url)].user_id]_vars

\* C19 witness: the entry of a registered url has raised after its task was
\* taken out of active_tasks, no record of the url is written, and the url of
\* another registered task is still to come in the same done list.
C19_Witness ==
    /\ input.op = "exception"
    /\ input.caught = "_process_completed_download"
    /\ scanner["cron"].pc = "done"
    /\ \E k \in scanner["cron"].seen :
          /\ ~ DictHas(active_tasks, k)
          /\ download_cache_get(State, k) # NoTask
          /\ heap[download_cache_get(State, k)].status = "submitted"
          /\ ~ processed_get(State, "processed", k)
    /\ \E k \in Keys \ scanner["cron"].seen :
          /\ DictHas(active_tasks, k)
          /\ ~ processed_get(State, "processed", k)

\* The task object the registration just made.
Registered == heap'[Len(heap')]

\* The check just run has checked the task object o (which is freed when
\* nothing refers to it any more) / has passed over it.
CheckedNow(o) ==
    \/ heap'[o] = Freed
    \/ /\ heap'[o].last_check_time = now
       /\ heap'[o].check_count = heap[o].check_count + 1

PassedOver(o) == heap'[o] = heap[o]

\* C20 (as stated): a new task is submitted with no last check time, check
\* count 0 and interval 10, and the first scan after its registration checks
\* it, however little time has passed.
C20_NewTaskDueAtOnce ==
    [][/\ input'.op = "add_active_task" =>
             /\ Registered.status = "submitted"
             /\ Registered.last_check_time = None
             /\ Registered.check_count = 0
             /\ Registered.next_check_interval = InitialInterval
       /\ input'.op = "check_downloads" =>
             \A i \in DOMAIN active_tasks :
                 heap[active_tasks[i].task].check_count = 0 =>
                     CheckedNow(active_tasks[i].task)]_vars

\* C20 (amended): a new task is submitted with its registration time as last
\* check time, check count 0 and interval 10; a scan checks a task that was
\* never checked exactly when 10 s or more have passed since its
\* registration, and passes over it before that.
C20_NewTaskDueAfterInterval ==
    [][/\ input'.op = "add_active_task" =>
             /\ Registered.status = "submitted"
             /\ Registered.submit_time = now
             /\ Registered.last_check_time = now
             /\ Registered.check_count = 0
             /\ Registered.next_check_interval = InitialInterval
       /\ input'.op = "check_downloads" =>
             \A i \in DOMAIN active_tasks :
                 LET o == active_tasks[i].task IN
                 heap[o].check_count = 0 =>
                     IF now - heap[o].submit_time >= InitialInterval
                     THEN CheckedNow(o) /\ ~ PassedOver(o)
                     ELSE PassedOver(o)]_vars

\* C20 witness: a scan that runs 10 s after a registration has made the first
\* check of the task, which is still in active_tasks.
C20_Witness ==
    /\ input.op = "check_downloads"
    /\ \E i \in DOMAIN active_tasks :
          LET task == heap[active_tasks[i].task] IN
          /\ task.check_count = 1
          /\ task.last_check_time = now
          /\ now - task.submit_time = InitialInterval

\* Line 715: the interval the check just run computes for task object o.
TierOf(o) == calculate_next_check_interval(State, heap[o].submit_time)

\* C21: a scan checks exactly the tasks whose interval has elapsed since their
\* last check; a checked task gets the scan time as last check time, its
\* check count raised by one and the interval of the tier of its age, and
\* leaves active_tasks when that tier is the last one; a task that is not due
\* keeps its fields.
C21_DueTasksChecked ==
    [][input'.op = "check_downloads" =>
          \A i \in DOMAIN active_tasks :
              LET o == active_tasks[i].task IN
              IF now - heap[o].last_check_time >= heap[o].next_check_interval
              THEN /\ TierOf(o) = NoInterval => ~ DictHas(active_tasks', active_tasks[i].url)
                   /\ heap'[o] # Freed =>
                         /\ heap'[o].last_check_time = now
                         /\ heap'[o].check_count = heap[o].check_count + 1
                         /\ TierOf(o) # NoInterval =>
                               heap'[o].next_check_interval = TierOf(o)
                         /\ heap'[o].submit_time = heap[o].submit_time
                         /\ heap'[o].status = heap[o].status
              ELSE /\ heap'[o] = heap[o]
                   /\ DictHas(active_tasks', active_tasks[i].url)]_vars

\* C21 witness: a scan has checked a task that is 3 minutes old and given it
\* the 60 s interval, and the task is still in active_tasks.
C21_Witness ==
    /\ input.op = "check_downloads"
    /\ \E i \in DOMAIN active_tasks :
          LET task == heap[active_tasks[i].task] IN
          /\ task.last_check_time = now
          /\ task.check_count >= 1
          /\ now - task.submit_time >= 3 * 60
          /\ task.next_check_interval = 60

\* The task objects that some reference still reaches.
LiveTasks == {o \in DOMAIN heap : heap[o] # Freed}

\* C22 (as stated): no task that has been checked is still submitted.
C22_CheckedLeavesSubmitted ==
    \A o \in LiveTasks : ~ (heap[o].check_count >= 1 /\ heap[o].status = "submitted")

\* C22 (amended): a task has one of two statuses; it is submitted from its
\* registration on, through every check and through its removal from
\* active_tasks, and is completed only after a successful send of its
\* completion message, when it is no longer in active_tasks.
C22_SubmittedUntilCompleted ==
    \A o \in LiveTasks :
        /\ heap[o].status \in {"submitted", "completed"}
        /\ heap[o].status = "completed" =>
              /\ \E n \in DOMAIN attempts[heap[o].url] : attempts[heap[o].url][n].ok
              /\ \A i \in DOMAIN active_tasks : active_tasks[i].task # o
        /\ (\E i \in DOMAIN active_tasks : active_tasks[i].task = o) =>
              heap[o].status = "submitted"

\* C22 witness: a task that a scan has checked and left in active_tasks is
\* still submitted.
C22_Witness ==
    /\ input.op = "check_downloads"
    /\ \E i \in DOMAIN active_tasks :
          LET task == heap[active_tasks[i].task] IN
          /\ task.check_count >= 1
          /\ task.last_check_time = now
          /\ task.status = "submitted"

\* Scan s ends with this step, by reaching the end of the done list or by an
\* exception caught in check_downloads.
ScanEnds(s) == scanner[s].pc # "idle" /\ scanner'[s].pc = "idle"

\* The check of scan s found task object o past the last tier (lines 711-721).
ExpiredBy(s, o) ==
    /\ heap'[o] # Freed
    /\ heap'[o].last_check_time = scanner[s].current_time
    /\ scanner[s].current_time - heap'[o].submit_time >= 4320 * 60

\* C23: active_tasks holds at most one task per url; the task for which the
\* matcher sends a completion message is out of active_tasks, whatever the
\* result of the send; and when a scan ends, no task that its check found
\* expired is in active_tasks.
C23_RegistryInvariant ==
    [][/\ \A i, j \in DOMAIN active_tasks' :
             active_tasks'[i].url = active_tasks'[j].url => i = j
       /\ \A s \in Scanners :
             /\ (scanner[s].pc = "send" /\ sent' # NoSend) =>
                   \A i \in DOMAIN active_tasks' : active_tasks'[i].task # scanner[s].task
             /\ ScanEnds(s) =>
                   \A i \in DOMAIN active_tasks' : ~ ExpiredBy(s, active_tasks'[i].task)]_vars

\* C24: a record lives for its window and no longer (24 h for a task in
\* download_cache, 7 days for a processed_ or orphan_ record); a finished
\* entry sends nothing while the processed_ record of its url lives, and once
\* that record has expired a finished entry of a url that is registered
\* again is notified to the owner again.
C24_RecordSuppressesUntilExpiry ==
    [][/\ \A k \in Keys : download_cache'[k].exp <= now' + TaskTTL
       /\ \A c \in CacheKeys : processed_downloads_cache'[c].exp <= now' + ProcessedTTL
       /\ \A k \in Keys :
             LET exp == processed_downloads_cache[<<"processed", k>>].exp IN
             ReadsFinished(k) =>
                 /\ now < exp => sent' = NoSend
                 /\ (now >= exp /\ DictHas(active_tasks, k)) =>
                       /\ sent'.path = "task"
                       /\ sent'.url = k
                       /\ sent'.to = heap[DictGet(active_tasks, k)].user_id]_vars

\* C24 witness: the owner is sent the completion message of a url a second
\* time, 7 days or more after the first message was sent successfully.
C24_Witness ==
    /\ sent.path = "task"
    /\ sent.ok
    /\ Len(attempts[sent.url]) >= 2
    /\ attempts[sent.url][1].ok
    /\ now - attempts[sent.url][1].at >= ProcessedTTL

C26_EveryRegistrationAnswered ==
    [][\A k \in Keys :
          (/\ ReadsFinished(k)
           /\ Tracked(k)
           /\ heap[TaskOf(k)].status = "submitted") =>
              /\ Notified(k)
              /\ sent'.to = heap[TaskOf(k)].user_id]_vars

\* The latest registration of url k is tracked and not answered, and no
\* processed_ record of an earlier notification of k is live.
Awaited(k) ==
    /\ Tracked(k)
    /\ heap[TaskOf(k)].status = "submitted"
    /\ ~ processed_get(State, "processed", k)

\* The completion message of url k has just been sent to user u successfully.
Delivered(k, u) == sent.path = "task" /\ sent.url = k /\ sent.to = u /\ sent.ok

\* C27: with scans firing without end, the url finished in every done list
\* and sends that succeed at some point within the 24 h of download_cache,
\* the user of an awaited registration is sent the completion message
\* successfully, after any number of failed sends.
C27_EventuallyDelivered ==
    \A u \in Users :
        (Awaited(LiveKey) /\ heap[TaskOf(LiveKey)].user_id = u)
            ~> (Delivered(LiveKey, u) \/ (Awaited(LiveKey) /\ heap[TaskOf(LiveKey)].user_id # u))

\* C27 witness: the completion message has been sent successfully for a task
\* that was no longer in active_tasks, found in download_cache after a send
\* that failed.
C27_Witness ==
    /\ sent.path = "task"
    /\ sent.ok
    /\ sent.url = LiveKey
    /\ sent.source = "download_cache"

\* The state shows that url k was passed to add_active_task: a task of k is
\* still referenced, or a completion message of k was sent.
WasRegistered(k) ==
    \/ \E o \in LiveTasks : heap[o].url = k
    \/ attempts[k] # <<>>

\* C28: no orphan message is sent and no orphan_ record is written for a url
\* that was registered, however long ago.
C28_RegisteredNeverOrphan ==
    [][\A k \in Keys :
          WasRegistered(k) =>
              /\ ~ (sent'.path = "orphan" /\ sent'.url = k)
              /\ ~ OrphanHandled(k)]_vars

\* Scan s has read the finished entry of url k from its done list and has not
\* ended yet.
InFlightOver(s, k) == scanner[s].pc # "idle" /\ k \in scanner[s].seen

\* C29: of two scans in flight together over done lists with the same
\* finished url, at most one sends a message for it: no two completion
\* messages of a url come from scans that ran together, and no orphan message
\* is sent for a url while another scan in flight has already written its
\* orphan_ record.
C29_InterleavedScansNotifyOnce ==
    /\ [](\A k \in Keys : \A i, j \in DOMAIN attempts[k] :
             i < j => \/ attempts[k][i].scan = attempts[k][j].scan
                      \/ attempts[k][j].scan > attempts[k][i].scans)
    /\ [][\A k \in Keys : \A s \in Scanners :
             (sent'.path = "orphan" /\ sent'.url = k /\ scanner[s].pc # "orphan_send") =>
                 ~ (InFlightOver(s, k) /\ processed_get(State, "orphan", k))]_vars

\* Task object o is in active_tasks.
InRegistry(o) == \E i \in DOMAIN active_tasks : active_tasks[i].task = o

\* C30: with scans firing without end and the clock advancing, every task
\* stored in active_tasks leaves it: taken by the matcher, removed by a check
\* that finds its url out of the queue or the task past 72 h, or replaced by
\* a new registration of its url.
C30_EveryTaskLeavesRegistry == \A o \in 1 .. MaxRegs : InRegistry(o) ~> ~ InRegistry(o)

\* C30 witness: a check has removed a task whose url was in the snapshot's
\* queue, 72 h or more after its registration.
C30_Witness ==
    /\ input.op = "check_downloads"
    /\ now >= 4320 * 60
    /\ \E k \in input.queue : ~ DictHas(active_tasks, k)
====
